---- MODULE Spec2Model ----
(***************************************************************************)
(* Product-management client: the Remote API Client (productService), the  *)
(* Session Store (authService), the Catalog State Container (productsSlice)*)
(* and the list view (Products) that drives them.                          *)
(*                                                                         *)
(* JavaScript values are kept type-uniform: an optional value is a         *)
(* sequence of length 0 (null / undefined) or 1, a header value is a       *)
(* sequence of one-character strings (<<>> when the header is absent or    *)
(* empty: both are falsy in the code), NaN is a negative sentinel.         *)
(***************************************************************************)
EXTENDS Integers, Sequences, FiniteSets, TLC

VARIABLES
    token,      \* localStorage['authToken']: None or Some(token)
    tasks,      \* asynchronous operations in flight, one record per slot
    store,      \* the productsSlice state (ProductsState)
    view,       \* the Products page: isDeleting, mounted effects
    logins,     \* authService.login requests in flight
    faults      \* failed answers the backend has given to the Products page

vars == <<token, tasks, store, view, logins, faults>>

----------------------------------------------------------------------------
(* Bounds of the model *)

\* Longest product array a server response carries.
MaxItems == 2
\* Asynchronous operations a page keeps in flight at once.
MaxTasks == 2
\* authService.login requests in flight at once.
MaxLogins == 1
\* Failed answers (network failure, non-2xx, unparseable body) the backend
\* gives to the thunks of the Products page in one run.
MaxFaults == 1
\* Largest totalCount and itemsPerPage the pagination is computed for.
MaxTotal == 20
MaxPerPage == 6

(* Program constants *)
MAX_RETRIES == 3
BASE_DELAY == 1000
DELAY_CAP == 30000
ITEMS_PER_PAGE == 9

----------------------------------------------------------------------------
(* JavaScript values *)

None == <<>>
Some(x) == <<x>>
IsSome(o) == o # <<>>
Get(o) == o[1]

NaN == 0 - 1

Min(a, b) == IF a < b THEN a ELSE b
Max(a, b) == IF a > b THEN a ELSE b

RECURSIVE Pow2(_)
Pow2(n) == IF n = 0 THEN 1 ELSE 2 * Pow2(n - 1)

Digits == {"0", "1", "2", "3", "4", "5", "6", "7", "8", "9"}

DigitValue(ch) ==
    CASE ch = "0" -> 0 [] ch = "1" -> 1 [] ch = "2" -> 2 [] ch = "3" -> 3
      [] ch = "4" -> 4 [] ch = "5" -> 5 [] ch = "6" -> 6 [] ch = "7" -> 7
      [] ch = "8" -> 8 [] ch = "9" -> 9

\* The value of the longest all-digit prefix of s, read left to right.
RECURSIVE LeadingDigits(_, _, _)
LeadingDigits(s, i, acc) ==
    IF i > Len(s) \/ s[i] \notin Digits THEN acc
    ELSE LeadingDigits(s, i + 1, 10 * acc + DigitValue(s[i]))

\* parseInt(s, 10): the leading decimal digits, NaN when there are none.
ParseInt(s) ==
    IF Len(s) = 0 \/ s[1] \notin Digits THEN NaN ELSE LeadingDigits(s, 1, 0)

\* x * k in JavaScript arithmetic: NaN stays NaN.
Times(x, k) == IF x = NaN THEN NaN ELSE x * k

\* A string is truthy when it is non-empty; a header that is absent is null.
Truthy(s) == Len(s) > 0

----------------------------------------------------------------------------
(* Data *)

Ids == {"p1", "p2"}
Tokens == {"tok"}

\* Product lists a server sends: no product twice.
ItemSeqs ==
    UNION {{s \in [1..n -> Ids] : \A i, j \in 1..n : i # j => s[i] # s[j]}
           : n \in 0..MaxItems}

Opt(S) == {None} \cup {Some(x) : x \in S}

\* The retryCount parameter of getProducts: a number, or (when getProduct
\* hands its identifier over in that position) a string.
RcNum(n) == [isNum |-> TRUE, n |-> n, s |-> ""]
RcStr(s) == [isNum |-> FALSE, n |-> 0, s |-> s]

\* retryCount < MAX_RETRIES: a non-numeric string converts to NaN, and every
\* comparison with NaN is false.
RcLess(rc, m) == rc.isNum /\ rc.n < m

\* retryCount + 1 (only ever evaluated after RcLess held, i.e. on a number).
RcInc(rc) == IF rc.isNum THEN RcNum(rc.n + 1) ELSE rc

----------------------------------------------------------------------------
(* HTTP responses: what the REST backend (an external collaborator) may    *)
(* answer.  reached = FALSE is a fetch() that rejects (network failure).    *)

NoResp ==
    [reached |-> TRUE, status |-> 0, retryAfter |-> <<>>, totalHeader |-> <<>>,
     shape |-> "none", items |-> <<>>, products |-> None, data |-> None,
     total |-> None, totalCount |-> None, id |-> "", message |-> None]

\* response.ok
Ok(r) == r.status >= 200 /\ r.status <= 299

\* Retry-After: absent, delay-seconds, or an HTTP-date.
RetryAfterValues == {<<>>, <<"6", "0">>, <<"W", "e", "d">>}
\* x-total-count: absent or a decimal count.
TotalHeaderValues == {<<>>, <<"0">>, <<"1", "2">>}
\* total / totalCount properties of an object body.
TotalValues == {0, 10}
TotalCountValues == {19}
\* Arrays carried under `products` and under `data` of an object body.
ObjectProducts == {<<>>, <<"p1">>}
ObjectData == {<<"p2">>}

NetworkFailure == {[NoResp EXCEPT !.reached = FALSE]}

RateLimited == {[NoResp EXCEPT !.status = 429, !.retryAfter = ra] : ra \in RetryAfterValues}

Unauthorized == {[NoResp EXCEPT !.status = 401]}

\* Any other non-2xx answer; its JSON body may carry a message, carry none,
\* or not parse.
ServerErrors ==
    {[NoResp EXCEPT !.status = 500, !.shape = "object", !.message = m]
        : m \in Opt({"Name already exists"})}
    \cup {[NoResp EXCEPT !.status = 500, !.shape = "invalid"]}
    \cup {[NoResp EXCEPT !.status = 404, !.shape = "object"]}

Unparseable == {[NoResp EXCEPT !.status = 200, !.shape = "invalid"]}

Failures == NetworkFailure \cup RateLimited \cup Unauthorized \cup ServerErrors

ArrayBodies ==
    {[NoResp EXCEPT !.status = 200, !.shape = "array", !.items = s, !.totalHeader = h]
        : s \in ItemSeqs, h \in TotalHeaderValues}

ObjectBodies ==
    {[NoResp EXCEPT !.status = 200, !.shape = "object", !.products = p[1], !.data = p[2],
                    !.total = t[1], !.totalCount = t[2], !.totalHeader = t[3]]
        : p \in Opt(ObjectProducts) \X Opt(ObjectData),
          t \in Opt(TotalValues) \X Opt(TotalCountValues) \X {<<>>, <<"1", "2">>}}

\* GET /products
ListResponses == Failures \cup Unparseable \cup ArrayBodies \cup ObjectBodies

\* GET /products/search
SearchResponses ==
    Failures \cup Unparseable
    \cup {[NoResp EXCEPT !.status = 200, !.shape = "array", !.items = s] : s \in ItemSeqs}
    \cup {[NoResp EXCEPT !.status = 200, !.shape = "object"]}

\* GET / PUT / DELETE /products/{id}: the record with that id, or (GET) an array.
ProductResponses(id) ==
    Failures \cup Unparseable
    \cup {[NoResp EXCEPT !.status = 200, !.shape = "object", !.id = id]}

DirectResponses(id) ==
    ProductResponses(id)
    \cup {[NoResp EXCEPT !.status = 200, !.shape = "array", !.items = s] : s \in {<<>>, <<id>>}}

\* POST /products: the created record, under an id the server chose.
CreateResponses ==
    Failures \cup Unparseable
    \cup {[NoResp EXCEPT !.status = 200, !.shape = "object", !.id = i] : i \in Ids}

\* GET /categories
CategoryNames == {"c1", "c2"}
CategorySeqs == {<<>>, <<"c1">>, <<"c1", "c2">>}
CategoryResponses ==
    Failures \cup Unparseable
    \cup {[NoResp EXCEPT !.status = 200, !.shape = "array", !.items = s, !.totalHeader = h]
            : s \in CategorySeqs, h \in TotalHeaderValues}

----------------------------------------------------------------------------
(* Error messages *)

NoTokenMsg == "No authentication token found"
RateLimitMsg == "Rate limit exceeded. Please try again later."
SessionExpiredMsg == "Session expired. Please log in again."
StatusMsg(status) ==
    IF status = 404 THEN "Failed to fetch products: 404" ELSE "Failed to fetch products: 500"
NetworkMsg == "Failed to fetch"
ParseMsg == "Unexpected token in JSON"
SearchFailedMsg == "Failed to search products"
NotFoundMsg == "Product not found"
CreateFailedMsg == "Failed to create product"
UpdateFailedMsg == "Failed to update product"
DeleteFailedMsg == "Failed to delete product"
CategoriesFailedMsg == "Failed to fetch categories"

\* error.message.includes('Session expired'): of the messages above only the
\* 401 message contains the phrase.
IncludesSessionExpired(msg) == msg = SessionExpiredMsg

\* JavaScript's `undefined`, where a product is expected.
Undefined == "undefined"

----------------------------------------------------------------------------
(* Remote API Client (productService).  A call is a record: its arguments,  *)
(* where it is suspended (pc: "http" awaiting fetch, "sleep" awaiting the   *)
(* backoff timer, "done"), and what it settled with (out).                  *)
(* History fields: requests (fetches issued), tries (one entry per backoff  *)
(* wait), sawToken (some attempt found a token), resp (the last response).  *)

Pending ==
    [state |-> "pending", error |-> "", products |-> <<>>, isArray |-> TRUE,
     total |-> 0, product |-> ""]

Failure(msg) == [Pending EXCEPT !.state = "error", !.error = msg]

Idle ==
    [op |-> "", id |-> "", text |-> "", offset |-> 0, limit |-> 0, categoryId |-> "",
     retryCount |-> RcNum(0), stage |-> "", pc |-> "idle", delay |-> 0, cause |-> "",
     requests |-> 0, tries |-> <<>>, sawToken |-> FALSE, resp |-> NoResp,
     out |-> Pending]

Finish(c, out) == [c EXCEPT !.pc = "done", !.out = out]

\* History: whether a token was in storage when an attempt of c began.
Observe(c, tok) == [c EXCEPT !.sawToken = @ \/ tok # None]

\* A variant: headers built without looking for the token
getAuthHeadersUnchecked(tok) == TRUE

\* getAuthHeaders: throws when localStorage holds no (or an empty) token.
getAuthHeaders(tok) == IsSome(tok) /\ Get(tok) # ""

\* A variant: logout() that leaves the stored item in place
logoutKeepsToken(tok) == tok

\* authService.logout(): localStorage.removeItem('authToken')
logout(tok) == None

\* A variant: a linear schedule: BASE_DELAY * (retryCount + 1)
BackoffLinear(rc) == Min(BASE_DELAY * (rc.n + 1), DELAY_CAP)

\* Math.min(BASE_DELAY * Math.pow(2, retryCount), 30000)
Backoff(rc) == Min(BASE_DELAY * Pow2(rc.n), DELAY_CAP)

\* The backoff suspension: await new Promise(resolve => setTimeout(resolve, delay))
Sleep(c, kind, header, delay, msg) ==
    [c EXCEPT !.pc = "sleep", !.delay = delay, !.cause = msg,
              !.tries = Append(@, [kind |-> kind, header |-> header, delay |-> delay])]

\* A variant: the catch block without the 'Session expired' exemption
getProductsCatchRetryAll(c, msg) ==
    IF RcLess(c.retryCount, MAX_RETRIES)
    THEN Sleep(c, "error", FALSE, Backoff(c.retryCount), msg)
    ELSE Finish(c, Failure(msg))

\* A variant: the catch block rethrowing at once
getProductsCatchRethrow(c, msg) == Finish(c, Failure(msg))

\* getProducts, the catch block: retry after the backoff unless the retries
\* are used up or the session expired; otherwise rethrow.
getProductsCatch(c, msg) ==
    IF RcLess(c.retryCount, MAX_RETRIES) /\ ~IncludesSessionExpired(msg)
    THEN Sleep(c, "error", FALSE, Backoff(c.retryCount), msg)
    ELSE Finish(c, Failure(msg))

\* getProducts up to its first await: getAuthHeaders() is evaluated as an
\* argument of fetch, so a missing token throws into the catch block before
\* any request is sent.
getProductsAttempt(c, tok) ==
    IF ~getAuthHeaders(tok) THEN getProductsCatch(Observe(c, tok), NoTokenMsg)
    ELSE [Observe(c, tok) EXCEPT !.pc = "http", !.requests = @ + 1]

\* A variant: the 429 branch never reading Retry-After
getProductsRateLimitedNoHeader(c, r) ==
    IF RcLess(c.retryCount, MAX_RETRIES)
    THEN Sleep(c, "429", Truthy(r.retryAfter), Backoff(c.retryCount), RateLimitMsg)
    ELSE getProductsCatch(c, RateLimitMsg)

\* getProducts, the 429 branch.
getProductsRateLimited(c, r) ==
    IF RcLess(c.retryCount, MAX_RETRIES)
    THEN Sleep(c, "429", Truthy(r.retryAfter),
               IF Truthy(r.retryAfter) THEN Times(ParseInt(r.retryAfter), 1000)
               ELSE Backoff(c.retryCount),
               RateLimitMsg)
    ELSE getProductsCatch(c, RateLimitMsg)

\* A variant: normalisation reading `data` before `products` and `totalCount`
\* before `total`, and ignoring x-total-count
getProductsNormalizeSwapped(r) ==
    IF r.shape = "array"
    THEN [products |-> r.items, total |-> Len(r.items)]
    ELSE [products |-> IF IsSome(r.data) THEN Get(r.data)
                       ELSE IF IsSome(r.products) THEN Get(r.products)
                       ELSE <<>>,
          total |-> IF IsSome(r.totalCount) /\ Get(r.totalCount) # 0 THEN Get(r.totalCount)
                    ELSE IF IsSome(r.total) THEN Get(r.total)
                    ELSE 0]

\* getProducts, response normalisation: a bare array, or an object with the
\* items under products / data and the count under total / totalCount.
\* `a || b` takes b when a is undefined or 0; an array is always truthy.
getProductsNormalize(r) ==
    LET headerTotal == IF Truthy(r.totalHeader) THEN ParseInt(r.totalHeader) ELSE 0
    IN  IF r.shape = "array"
        THEN [products |-> r.items,
              total |-> IF Truthy(r.totalHeader) THEN ParseInt(r.totalHeader)
                        ELSE Len(r.items)]
        ELSE [products |-> IF IsSome(r.products) THEN Get(r.products)
                           ELSE IF IsSome(r.data) THEN Get(r.data)
                           ELSE <<>>,
              total |-> IF IsSome(r.total) /\ Get(r.total) # 0 THEN Get(r.total)
                        ELSE IF IsSome(r.totalCount) /\ Get(r.totalCount) # 0
                             THEN Get(r.totalCount)
                        ELSE headerTotal]

ListResult(n) ==
    [Pending EXCEPT !.state = "ok", !.products = n.products, !.total = n.total]

\* getProducts from the resolution of fetch to the next suspension or the end.
\* Yields the call and the stored token (a 401 logs out).  The navigation to
\* /login that the 401 branch requests unloads the page once the running
\* handlers have returned; the pages modelled here live on, which adds
\* behaviours and removes none.
getProductsOnResponse(c, r, tok) ==
    IF ~r.reached THEN [call |-> getProductsCatch(c, NetworkMsg), token |-> tok]
    ELSE IF r.status = 429 THEN [call |-> getProductsRateLimited(c, r), token |-> tok]
    ELSE IF ~Ok(r) THEN
        IF r.status = 401
        THEN [call |-> getProductsCatch(c, SessionExpiredMsg), token |-> logout(tok)]
        ELSE [call |-> getProductsCatch(c, StatusMsg(r.status)), token |-> tok]
    ELSE IF r.shape = "invalid" THEN [call |-> getProductsCatch(c, ParseMsg), token |-> tok]
    ELSE [call |-> Finish(c, ListResult(getProductsNormalize(r))), token |-> tok]

\* A variant: the retry made with the same retryCount
getProductsRetrySameCount(c, tok) ==
    getProductsAttempt([c EXCEPT !.delay = 0, !.cause = ""], tok)

\* The timer fires: return this.getProducts(offset, limit, categoryId, retryCount + 1).
\* The returned promise is not awaited inside the try, so whatever the
\* recursive call settles with is the result of the whole call.
getProductsRetry(c, tok) ==
    getProductsAttempt([c EXCEPT !.retryCount = RcInc(@), !.delay = 0, !.cause = ""], tok)

getProducts(offset, limit, categoryId, retryCount, tok) ==
    getProductsAttempt(
        [Idle EXCEPT !.op = "getProducts", !.offset = offset, !.limit = limit,
                     !.categoryId = categoryId, !.retryCount = retryCount], tok)

\* The operations below send one request: headers first (a missing token throws
\* before fetch is called), then the fetch.
Send(c, tok) ==
    IF ~getAuthHeaders(tok) THEN Finish(Observe(c, tok), Failure(NoTokenMsg))
    ELSE [Observe(c, tok) EXCEPT !.pc = "http", !.requests = @ + 1]

ProductResult(p) == [Pending EXCEPT !.state = "ok", !.product = p]

\* errorData.message || fallback, with errorData = await response.json().catch(() => ({}))
ServerMessage(r, fallback) ==
    IF r.shape = "object" /\ IsSome(r.message) /\ Get(r.message) # ""
    THEN Get(r.message) ELSE fallback

searchProducts(query, tok) ==
    Send([Idle EXCEPT !.op = "searchProducts", !.text = query], tok)

searchProductsOnResponse(c, r) ==
    IF ~r.reached THEN Finish(c, Failure(NetworkMsg))
    ELSE IF ~Ok(r) THEN Finish(c, Failure(SearchFailedMsg))
    ELSE IF r.shape = "invalid" THEN Finish(c, Failure(ParseMsg))
    ELSE Finish(c, [Pending EXCEPT !.state = "ok", !.products = r.items,
                                   !.isArray = (r.shape = "array")])

\* getProduct, after the list query it fell back to has settled: its first
\* item, 'Product not found' when it has none; an error is rethrown with the
\* same message.
getProductFromList(c) ==
    IF c.pc = "done" /\ c.out.state = "ok"
    THEN IF Len(c.out.products) > 0
         THEN Finish(c, ProductResult(c.out.products[1]))
         ELSE Finish(c, Failure(NotFoundMsg))
    ELSE c

getProduct(identifier, tok) ==
    Send([Idle EXCEPT !.op = "getProduct", !.id = identifier, !.stage = "direct"], tok)

\* getProduct: the direct fetch answered.  A non-ok answer falls back to
\* this.getProducts(0, 1, undefined, identifier): the identifier is handed
\* over in the retryCount position, the query carries offset and limit only.
getProductOnResponse(c, r, tok) ==
    IF c.stage = "direct" THEN
        IF ~r.reached THEN [call |-> Finish(c, Failure(NetworkMsg)), token |-> tok]
        ELSE IF Ok(r) THEN
            [call |-> IF r.shape = "invalid" THEN Finish(c, Failure(ParseMsg))
                      ELSE IF r.shape = "array"
                           THEN Finish(c, ProductResult(IF Len(r.items) > 0 THEN r.items[1]
                                                        ELSE Undefined))
                      ELSE Finish(c, ProductResult(r.id)),
             token |-> tok]
        ELSE [call |-> getProductFromList(
                          getProductsAttempt(
                              [c EXCEPT !.stage = "list", !.offset = 0, !.limit = 1,
                                        !.categoryId = "", !.retryCount = RcStr(c.id)],
                              tok)),
              token |-> tok]
    ELSE LET res == getProductsOnResponse(c, r, tok)
         IN  [call |-> getProductFromList(res.call), token |-> res.token]

createProduct(tok) == Send([Idle EXCEPT !.op = "createProduct"], tok)

createProductOnResponse(c, r) ==
    IF ~r.reached THEN Finish(c, Failure(NetworkMsg))
    ELSE IF ~Ok(r) THEN Finish(c, Failure(CreateFailedMsg))
    ELSE IF r.shape = "invalid" THEN Finish(c, Failure(ParseMsg))
    ELSE Finish(c, ProductResult(r.id))

updateProduct(id, tok) == Send([Idle EXCEPT !.op = "updateProduct", !.id = id], tok)

\* A variant: the generic message whatever the body says
updateProductOnResponseGeneric(c, r) ==
    IF ~r.reached THEN Finish(c, Failure(NetworkMsg))
    ELSE IF ~Ok(r) THEN Finish(c, Failure(UpdateFailedMsg))
    ELSE IF r.shape = "invalid" THEN Finish(c, Failure(ParseMsg))
    ELSE Finish(c, ProductResult(r.id))

updateProductOnResponse(c, r) ==
    IF ~r.reached THEN Finish(c, Failure(NetworkMsg))
    ELSE IF ~Ok(r) THEN Finish(c, Failure(ServerMessage(r, UpdateFailedMsg)))
    ELSE IF r.shape = "invalid" THEN Finish(c, Failure(ParseMsg))
    ELSE Finish(c, ProductResult(r.id))

deleteProductRequest(id, tok) == Send([Idle EXCEPT !.op = "deleteProduct", !.id = id], tok)

\* deleteProduct: returns { id: result.id } of the parsed body.
deleteProductOnResponse(c, r) ==
    IF ~r.reached THEN Finish(c, Failure(NetworkMsg))
    ELSE IF ~Ok(r) THEN Finish(c, Failure(ServerMessage(r, DeleteFailedMsg)))
    ELSE IF r.shape = "invalid" THEN Finish(c, Failure(ParseMsg))
    ELSE Finish(c, ProductResult(r.id))

getCategories(tok) == Send([Idle EXCEPT !.op = "getCategories", !.limit = 10], tok)

\* getCategories: total from x-total-count when present, else the length.
getCategoriesOnResponse(c, r) ==
    IF ~r.reached THEN Finish(c, Failure(NetworkMsg))
    ELSE IF ~Ok(r) THEN Finish(c, Failure(CategoriesFailedMsg))
    ELSE IF r.shape = "invalid" THEN Finish(c, Failure(ParseMsg))
    ELSE Finish(c, [Pending EXCEPT !.state = "ok", !.products = r.items,
                        !.total = IF Truthy(r.totalHeader) THEN ParseInt(r.totalHeader)
                                  ELSE Len(r.items)])

\* What the backend may answer to the request a call is waiting on.
Responses(c) ==
    CASE c.op = "getProducts" -> ListResponses
      [] c.op = "searchProducts" -> SearchResponses
      [] c.op = "getProduct" ->
            IF c.stage = "direct" THEN DirectResponses(c.id) ELSE ListResponses
      [] c.op = "createProduct" -> CreateResponses
      [] c.op \in {"updateProduct", "deleteProduct"} -> ProductResponses(c.id)
      [] c.op = "getCategories" -> CategoryResponses

\* The continuation of a call whose fetch settled with r.
OnResponse(c0, r, tok) ==
    LET c == [c0 EXCEPT !.resp = r]
    IN  CASE c.op = "getProducts" -> getProductsOnResponse(c, r, tok)
          [] c.op = "getProduct" -> getProductOnResponse(c, r, tok)
          [] c.op = "searchProducts" -> [call |-> searchProductsOnResponse(c, r), token |-> tok]
          [] c.op = "createProduct" -> [call |-> createProductOnResponse(c, r), token |-> tok]
          [] c.op = "updateProduct" -> [call |-> updateProductOnResponse(c, r), token |-> tok]
          [] c.op = "deleteProduct" -> [call |-> deleteProductOnResponse(c, r), token |-> tok]
          [] c.op = "getCategories" -> [call |-> getCategoriesOnResponse(c, r), token |-> tok]

\* The continuation of a call whose backoff timer fired.
OnTimer(c, tok) ==
    IF c.op = "getProduct" THEN getProductFromList(getProductsRetry(c, tok))
    ELSE getProductsRetry(c, tok)

----------------------------------------------------------------------------
(* Catalog State Container (productsSlice): state and reducers *)

\* productsSlice initialState
initialState ==
    [products |-> <<>>, categories |-> None, loading |-> FALSE, error |-> None,
     currentPage |-> 1, itemsPerPage |-> ITEMS_PER_PAGE, searchQuery |-> "",
     totalCount |-> 0]

\* A variant: the page is reset only when the text changes, to the page it
\* was on before
setSearchQueryKeepPage(st, x) ==
    [st EXCEPT !.searchQuery = x,
               !.currentPage = IF x # st.searchQuery THEN 1 ELSE @]

setSearchQuery(st, x) == [st EXCEPT !.searchQuery = x, !.currentPage = 1]

setCurrentPage(st, n) == [st EXCEPT !.currentPage = n]

fetchProductsPending(st) == [st EXCEPT !.loading = TRUE, !.error = None]

fetchProductsFulfilled(st, payload) ==
    [st EXCEPT !.loading = FALSE, !.products = payload.products,
               !.totalCount = payload.total]

\* A rejected reducer that also drops what was listed.
fetchProductsRejectedClearsList(st, msg) ==
    [st EXCEPT !.loading = FALSE, !.products = <<>>, !.totalCount = 0,
               !.error = Some(IF msg # "" THEN msg ELSE "Failed to fetch products")]

fetchProductsRejected(st, msg) ==
    [st EXCEPT !.loading = FALSE,
               !.error = Some(IF msg # "" THEN msg ELSE "Failed to fetch products")]

fetchCategoriesFulfilled(st, payload) ==
    [st EXCEPT !.loading = FALSE,
               !.categories = Some([categories |-> payload.products,
                                    total |-> payload.total])]

\* A variant: a rejected case that also drops the categories
fetchCategoriesRejectedClears(st, msg) ==
    [st EXCEPT !.loading = FALSE, !.categories = None,
               !.error = Some(IF msg # "" THEN msg ELSE "Failed to fetch categories")]

fetchCategoriesRejected(st, msg) ==
    [st EXCEPT !.loading = FALSE,
               !.error = Some(IF msg # "" THEN msg ELSE "Failed to fetch categories")]

\* A fulfilled reducer that counts a removal only when the list held the id.
deleteProductFulfilledIfListed(st, id) ==
    [st EXCEPT !.products = SelectSeq(@, LAMBDA p : p # id),
               !.totalCount = IF \E i \in 1..Len(st.products) : st.products[i] = id
                              THEN Max(0, @ - 1) ELSE @]

deleteProductFulfilled(st, id) ==
    [st EXCEPT !.products = SelectSeq(@, LAMBDA p : p # id),
               !.totalCount = Max(0, @ - 1)]

\* A variant: a rejected case that stores the message, as fetchProducts has
deleteProductRejectedStoresError(st, msg) ==
    [st EXCEPT !.loading = FALSE,
               !.error = Some(IF msg # "" THEN msg ELSE "Failed to delete product")]

\* deleteProduct/rejected: extraReducers registers no case for it, so the
\* slice returns the state it was given.
deleteProductRejected(st, msg) == st

\* A variant: the page count without the floor of 1
totalPagesUnfloored(st) ==
    (st.totalCount + st.itemsPerPage - 1) \div st.itemsPerPage

\* Products.tsx: Math.max(1, Math.ceil(totalCount / itemsPerPage))
totalPages(st) ==
    Max(1, (st.totalCount + st.itemsPerPage - 1) \div st.itemsPerPage)

----------------------------------------------------------------------------
(* Asynchronous operations in flight.  kind "client" is a page calling the  *)
(* Remote API Client directly (ProductForm, ProductDetails); the other      *)
(* kinds are the thunks of productsSlice.  A thunk keeps what it read from  *)
(* the state when it started (query, page); history: latest = no            *)
(* fetchProducts was started after this one; on the fetchProducts that      *)
(* handleDelete awaits, listed = the list held the product removed.         *)

Slots == 1..MaxTasks

IdleTask ==
    [kind |-> "idle", call |-> Idle, query |-> "", page |-> 0, id |-> "",
     afterDelete |-> FALSE, latest |-> FALSE, listed |-> FALSE]

\* History: how the last thunk that settled ended (type "" when a later
\* dispatch has been reduced since).  For fetchCategories, products / total
\* are the categories and the total the service returned and header the
\* x-total-count of the answer.  toast: the notification the product card
\* shows once the handleDelete it awaited has returned.
\* stale: a fulfilled fetchProducts came from a request that a later one had
\* superseded and that asked for another search text or page than the current.
NoEvent ==
    [type |-> "", products |-> <<>>, total |-> 0, error |-> "", id |-> "",
     stale |-> FALSE, header |-> <<>>, toast |-> ""]

\* History: the last plain action dispatched straight to the store, with the
\* state it was reduced from.
NoAction == [type |-> "", text |-> "", page |-> 0, before |-> initialState]

\* What POST /auth may answer: ok with { token }, not ok with a JSON body
\* that carries a message or none, either with a body that does not parse,
\* or nothing at all (fetch rejects).
NoAuthResp ==
    [reached |-> TRUE, ok |-> FALSE, parses |-> TRUE, token |-> "", message |-> None]

AuthMessages == {"Invalid email"}

AuthResponses ==
    {[NoAuthResp EXCEPT !.ok = TRUE, !.token = t] : t \in Tokens}
    \cup {[NoAuthResp EXCEPT !.message = m] : m \in Opt(AuthMessages)}
    \cup {[NoAuthResp EXCEPT !.ok = o, !.parses = FALSE] : o \in BOOLEAN}
    \cup {[NoAuthResp EXCEPT !.reached = FALSE]}

\* History of the session: loggedOut = logout() has run and no login has been
\* started since; resp / result / value = the answer the last login got and
\* what it settled with (the token returned, or the message thrown), since
\* the last login started or logout ran.
NoSession == [loggedOut |-> FALSE, resp |-> NoAuthResp, result |-> "", value |-> ""]

\* The Auth page: the email typed, the last notification shown, whether the
\* page has navigated away after a login; history: sent = the email of the
\* last POST /auth.
NoAuthForm == [email |-> <<>>, toast |-> "", left |-> FALSE, sent |-> None]

\* The errors validate() found, one message per field ("" for none).
NoErrors == [name |-> "", price |-> ""]

\* The ProductForm page: the product edited ("" when creating), the fields
\* typed, the errors of the last validation, loading, the last notification
\* shown, whether the page has navigated away after saving; history: sent =
\* the productData of the last createProduct / updateProduct.
NoForm ==
    [id |-> "", name |-> <<>>, price |-> <<>>, errors |-> NoErrors, loading |-> FALSE,
     toast |-> "", left |-> FALSE, sent |-> None]

initialView ==
    [mounted |-> FALSE, isDeleting |-> FALSE, event |-> NoEvent, action |-> NoAction,
     session |-> NoSession, auth |-> NoAuthForm, form |-> NoForm]

\* The state of the program as one value, so that a handler that runs several
\* dispatches in a row is one step.
World == [token |-> token, tasks |-> tasks, store |-> store, view |-> view]

Commit(w) ==
    /\ token' = w.token
    /\ tasks' = w.tasks
    /\ store' = w.store
    /\ view' = w.view

FreeSlots(w) == {s \in Slots : w.tasks[s].kind = "idle"}

FirstFree(w) == CHOOSE s \in FreeSlots(w) : \A t \in FreeSlots(w) : s <= t

\* The message of the rejected action of a thunk that used rejectWithValue:
\* createAsyncThunk serialises the error 'Rejected'.
RejectedMsg == "Rejected"

\* fetchProducts, the payload creator after the service call resolved: search
\* results are counted; a list result is read again as products/total with
\* its length standing in for a total of 0.
fetchProductsPayload(c) ==
    IF c.op = "searchProducts"
    THEN LET products == IF c.out.isArray THEN c.out.products ELSE <<>>
         IN  [products |-> products, total |-> Len(products)]
    ELSE [products |-> c.out.products,
          total |-> IF c.out.total # 0 THEN c.out.total ELSE Len(c.out.products)]

\* A variant: the offset computed from the page number itself
fetchProductsCallPageOffset(st, tok) ==
    IF st.searchQuery # ""
    THEN searchProducts(st.searchQuery, tok)
    ELSE getProducts(st.currentPage * st.itemsPerPage, st.itemsPerPage, "",
                     RcNum(0), tok)

\* fetchProducts, the payload creator up to its first await: the query is
\* chosen from the state read at the start.
fetchProductsCall(st, tok) ==
    IF st.searchQuery # ""
    THEN searchProducts(st.searchQuery, tok)
    ELSE getProducts((st.currentPage - 1) * st.itemsPerPage, st.itemsPerPage, "",
                     RcNum(0), tok)

DeletedToast == "Product deleted successfully!"

\* Products.handleDelete as the card sees it: the catch block shows a
\* notification and rethrows nothing, so the promise resolves whether the
\* removal succeeded (ok) or not.
handleDeleteOutcome(ok) == "resolved"

\* ProductCard.handleDeleteClick, after `await onDelete(product.id)`.
handleDeleteClickToast(outcome) ==
    IF outcome = "resolved" THEN DeletedToast ELSE DeleteFailedMsg

\* A settlement that ignores the result of a fetchProducts that a later one
\* superseded.
SettleFetchProductsLatestOnly(w, s) ==
    LET t == w.tasks[s]
        c == t.call
        ok == c.out.state = "ok"
        payload == fetchProductsPayload(c)
        ev == IF ok
              THEN [NoEvent EXCEPT !.type = "fetchProducts/fulfilled",
                        !.products = payload.products, !.total = payload.total,
                        !.stale = /\ ~t.latest
                                  /\ <<t.query, t.page>> #
                                        <<w.store.searchQuery, w.store.currentPage>>]
              ELSE [NoEvent EXCEPT !.type = "fetchProducts/rejected",
                        !.error = c.out.error]
        toast == IF t.afterDelete THEN handleDeleteClickToast(handleDeleteOutcome(TRUE))
                 ELSE ""
    IN  [w EXCEPT !.store = IF ~t.latest THEN @
                            ELSE IF ok THEN fetchProductsFulfilled(@, payload)
                            ELSE fetchProductsRejected(@, c.out.error),
                  !.tasks[s] = IdleTask,
                  !.view.event = [ev EXCEPT !.toast = toast],
                  !.view.isDeleting = IF t.afterDelete THEN FALSE ELSE @]

\* The service call of the fetchProducts thunk in slot s has settled: the
\* fulfilled or rejected reducer runs; a fetch that handleDelete awaited ends
\* the deletion (finally: setIsDeleting(false)).
SettleFetchProducts(w, s) ==
    LET t == w.tasks[s]
        c == t.call
        ok == c.out.state = "ok"
        payload == fetchProductsPayload(c)
        ev == IF ok
              THEN [NoEvent EXCEPT !.type = "fetchProducts/fulfilled",
                        !.products = payload.products, !.total = payload.total,
                        !.stale = /\ ~t.latest
                                  /\ <<t.query, t.page>> #
                                        <<w.store.searchQuery, w.store.currentPage>>]
              ELSE [NoEvent EXCEPT !.type = "fetchProducts/rejected",
                        !.error = c.out.error]
        toast == IF t.afterDelete THEN handleDeleteClickToast(handleDeleteOutcome(TRUE))
                 ELSE ""
    IN  [w EXCEPT !.store = IF ok THEN fetchProductsFulfilled(@, payload)
                            ELSE fetchProductsRejected(@, c.out.error),
                  !.tasks[s] = IdleTask,
                  !.view.event = [ev EXCEPT !.toast = toast],
                  !.view.isDeleting = IF t.afterDelete THEN FALSE ELSE @]

\* dispatch(fetchProducts()) in slot s: the pending reducer, then the payload
\* creator up to its first await; a call that fails before any await settles
\* in the same step.
DispatchFetchProducts(w, s, afterDelete) ==
    LET st == fetchProductsPending(w.store)
        c == fetchProductsCall(st, w.token)
        older == [x \in Slots |->
                    IF w.tasks[x].kind = "fetchProducts"
                    THEN [w.tasks[x] EXCEPT !.latest = FALSE] ELSE w.tasks[x]]
        t == [IdleTask EXCEPT !.kind = "fetchProducts", !.call = c,
                              !.query = st.searchQuery, !.page = st.currentPage,
                              !.afterDelete = afterDelete, !.latest = TRUE]
        w1 == [w EXCEPT !.store = st, !.tasks = [older EXCEPT ![s] = t],
                        !.view.event = NoEvent]
    IN  IF c.pc = "done" THEN SettleFetchProducts(w1, s) ELSE w1

\* The service call of the fetchCategories thunk has settled.
SettleFetchCategories(w, s) ==
    LET c == w.tasks[s].call
        ok == c.out.state = "ok"
    IN  [w EXCEPT !.store = IF ok THEN fetchCategoriesFulfilled(@, c.out)
                            ELSE fetchCategoriesRejected(@, RejectedMsg),
                  !.tasks[s] = IdleTask,
                  !.view.event =
                      IF ok THEN [NoEvent EXCEPT !.type = "fetchCategories/fulfilled",
                                      !.products = c.out.products, !.total = c.out.total,
                                      !.header = c.resp.totalHeader]
                      ELSE [NoEvent EXCEPT !.type = "fetchCategories/rejected",
                                !.error = RejectedMsg]]

\* dispatch(fetchCategories()): no pending reducer is registered for it.
DispatchFetchCategories(w, s) ==
    LET w1 == [w EXCEPT !.tasks[s] = [IdleTask EXCEPT !.kind = "fetchCategories",
                                                     !.call = getCategories(w.token)]]
    IN  IF w1.tasks[s].call.pc = "done" THEN SettleFetchCategories(w1, s) ELSE w1

\* The service call of the deleteProduct thunk has settled, and handleDelete
\* resumes: after a success the fulfilled reducer runs and the products are
\* fetched again (awaited); after a failure nothing is reduced (no rejected
\* case is registered) and the deletion ends.
SettleDeleteProduct(w, s) ==
    LET t == w.tasks[s]
        ok == t.call.out.state = "ok"
        w1 == DispatchFetchProducts(
                 [w EXCEPT !.store = deleteProductFulfilled(@, t.id),
                           !.tasks[s] = IdleTask,
                           !.view.event = [NoEvent EXCEPT !.type = "deleteProduct/fulfilled",
                                               !.id = t.id]],
                 s, TRUE)
    IN  IF ok
        THEN IF w1.tasks[s].kind = "idle" THEN w1
             ELSE [w1 EXCEPT !.tasks[s].listed =
                                 \E i \in 1..Len(w.store.products) : w.store.products[i] = t.id]
        ELSE [w EXCEPT !.store = deleteProductRejected(@, t.call.out.error),
                       !.tasks[s] = IdleTask,
                       !.view.isDeleting = FALSE,
                       !.view.event =
                           [NoEvent EXCEPT !.type = "deleteProduct/rejected", !.id = t.id,
                               !.toast = handleDeleteClickToast(handleDeleteOutcome(FALSE))]]

\* dispatch(deleteProduct(id))
DispatchDeleteProduct(w, s, id) ==
    LET w1 == [w EXCEPT !.tasks[s] = [IdleTask EXCEPT !.kind = "deleteProduct", !.id = id,
                                          !.call = deleteProductRequest(id, w.token)]]
    IN  IF w1.tasks[s].call.pc = "done" THEN SettleDeleteProduct(w1, s) ELSE w1

SaveFailedMsg == "Failed to save product"

\* ProductForm.handleSubmit after the service call settled: the success
\* notification and the navigation to /products, or the error's message;
\* finally setLoading(false).
SettleForm(w, s) ==
    LET c == w.tasks[s].call
        ok == c.out.state = "ok"
    IN  [w EXCEPT !.tasks[s] = IdleTask,
                  !.view.form.loading = FALSE,
                  !.view.form.left = ok,
                  !.view.form.toast =
                      IF ok THEN IF c.op = "updateProduct"
                                 THEN "Product updated successfully!"
                                 ELSE "Product created successfully!"
                      ELSE IF c.out.error # "" THEN c.out.error ELSE SaveFailedMsg]

\* What follows when the call of slot s is done.
Settle(w, s) ==
    IF w.tasks[s].call.pc # "done" THEN w
    ELSE CASE w.tasks[s].kind = "form" -> SettleForm(w, s)
           [] w.tasks[s].kind = "fetchProducts" -> SettleFetchProducts(w, s)
           [] w.tasks[s].kind = "fetchCategories" -> SettleFetchCategories(w, s)
           [] w.tasks[s].kind = "deleteProduct" -> SettleDeleteProduct(w, s)
           [] OTHER -> w

----------------------------------------------------------------------------
(* Steps every page shares: a fetch settles, a backoff timer fires.         *)

\* An answer that is a failure: fetch rejected, a non-2xx status, or a body
\* that does not parse.
IsFault(r) == ~r.reached \/ ~Ok(r) \/ r.shape = "invalid"

\* The fetch of slot s settles with one of the answers in R; counted tells
\* whether a failed answer counts against MaxFaults.
Answer(s, R, counted) ==
    /\ tasks[s].kind # "idle"
    /\ tasks[s].call.pc = "http"
    /\ \E r \in R :
          LET res == OnResponse(tasks[s].call, r, token)
          IN  /\ Commit(Settle([World EXCEPT !.token = res.token,
                                             !.tasks[s].call = res.call], s))
              /\ faults' = IF counted /\ IsFault(r) THEN faults + 1 ELSE faults
    /\ UNCHANGED logins

\* The successful answers to GET /products that the Products page is run
\* against: the bodies without an x-total-count header, one for each result
\* the client normalises them to (the page sees the result only).
PageBodies == {r \in ArrayBodies \cup ObjectBodies : r.totalHeader = <<>>}

ListRepresentatives ==
    {CHOOSE q \in PageBodies : getProductsNormalize(q) = n
        : n \in {getProductsNormalize(r) : r \in PageBodies}}

\* The answers the backend gives to a request of the Products page: failures
\* while fewer than MaxFaults were given.
PageResponses(c) ==
    {r \in Responses(c) :
        /\ IsFault(r) => faults < MaxFaults
        /\ (c.op = "getProducts" /\ ~IsFault(r)) => r \in ListRepresentatives
        /\ (c.op = "getCategories" /\ ~IsFault(r)) => r.totalHeader = <<>>}

\* The backend answers a request of the Products page.
HttpResponse(s) == Answer(s, PageResponses(tasks[s].call), TRUE)

\* The backend answers a request of a page that called the client directly.
ClientResponse(s) == Answer(s, Responses(tasks[s].call), FALSE)

TimerFires(s) ==
    /\ tasks[s].kind # "idle"
    /\ tasks[s].call.pc = "sleep"
    /\ Commit(Settle([World EXCEPT !.tasks[s].call = OnTimer(@, token)], s))
    /\ UNCHANGED <<logins, faults>>

----------------------------------------------------------------------------
(* The Products page *)

\* The page mounts: its effects dispatch fetchCategories, then fetchProducts.
Mount ==
    /\ ~view.mounted
    /\ Cardinality(FreeSlots(World)) >= 2
    /\ LET w0 == [World EXCEPT !.view.mounted = TRUE]
           w1 == DispatchFetchCategories(w0, FirstFree(w0))
       IN  Commit(DispatchFetchProducts(w1, FirstFree(w1), FALSE))
    /\ UNCHANGED <<logins, faults>>

\* The effect on [searchQuery, currentPage, itemsPerPage]: when the reducer
\* changed one of them, the products are fetched again.
Refetch(w, before) ==
    IF w.store.searchQuery # before.searchQuery \/ w.store.currentPage # before.currentPage
    THEN DispatchFetchProducts(w, FirstFree(w), FALSE)
    ELSE w

\* The user edits the search input (disabled while loading).
TypeSearch ==
    /\ view.mounted /\ ~store.loading
    /\ FreeSlots(World) # {}
    /\ \E x \in {"", "shoe"} :
          /\ x # store.searchQuery
          /\ Commit(Refetch([World EXCEPT !.store = setSearchQuery(@, x),
                                !.view.event = NoEvent],
                            store))
    /\ UNCHANGED <<logins, faults>>

\* The pagination is rendered when the page is not loading, lists at least
\* one product and has more than one page.
PaginationShown ==
    /\ view.mounted /\ ~store.loading
    /\ Len(store.products) > 0
    /\ totalPages(store) > 1

ClickPage(n) ==
    /\ FreeSlots(World) # {}
    /\ Commit(Refetch([World EXCEPT !.store = setCurrentPage(@, n),
                          !.view.event = NoEvent],
                      store))
    /\ UNCHANGED <<logins, faults>>

\* Previous: inert on page 1.
ClickPrevious ==
    /\ PaginationShown
    /\ store.currentPage # 1
    /\ ClickPage(Max(1, store.currentPage - 1))

\* A page number.
ClickPageLink ==
    /\ PaginationShown
    /\ \E n \in 1..totalPages(store) : ClickPage(n)

\* Next: inert on the last page.
ClickNext ==
    /\ PaginationShown
    /\ store.currentPage # totalPages(store)
    /\ ClickPage(Min(totalPages(store), store.currentPage + 1))

\* A variant: handleDelete without its guard
handleDeleteNeverIgnored(v) == FALSE

\* handleDelete: if (isDeleting) return
handleDeleteIgnored(v) == v.isDeleting

\* handleDelete(id), confirmed in the dialog of a listed product's card (the
\* cards are rendered when the page is not loading; the button that opens the
\* dialog is disabled while isDeleting, the dialog itself is not).  A call
\* that is ignored returns at once, and the card that awaited it shows its
\* notification.
ClickDelete ==
    /\ view.mounted /\ ~store.loading
    /\ \E i \in 1..Len(store.products) :
          IF handleDeleteIgnored(view)
          THEN Commit([World EXCEPT !.view.event =
                          [NoEvent EXCEPT !.type = "handleDelete/ignored",
                              !.id = store.products[i],
                              !.toast = handleDeleteClickToast(handleDeleteOutcome(FALSE))]])
          ELSE /\ FreeSlots(World) # {}
               /\ Commit(DispatchDeleteProduct([World EXCEPT !.view.isDeleting = TRUE],
                                               FirstFree(World), store.products[i]))
    /\ UNCHANGED <<logins, faults>>

Init ==
    /\ token \in Opt(Tokens)
    /\ tasks = [s \in Slots |-> IdleTask]
    /\ store = initialState
    /\ view = initialView
    /\ logins = 0
    /\ faults = 0

Next ==
    \/ Mount
    \/ TypeSearch
    \/ ClickPrevious
    \/ ClickPageLink
    \/ ClickNext
    \/ ClickDelete
    \/ \E s \in Slots : HttpResponse(s)
    \/ \E s \in Slots : TimerFires(s)

Spec == Init /\ [][Next]_vars

----------------------------------------------------------------------------
(* Session Store (authService) *)

AuthFailedMsg == "Failed to authenticate"

\* A variant: the token written before the answer is looked at
loginOnResponseStoresFirst(tok, ok, t) == Some(t)

\* authService.login, from the answer of POST /auth on: a non-ok answer throws
\* and stores nothing, an ok answer stores data.token.
loginOnResponse(tok, ok, t) == IF ok THEN Some(t) ELSE tok

\* authService.login: the answer's body was read (response.json() resolved).
loginParsed(r) == r.reached /\ r.parses

\* authService.login: what the call settles with.
loginResult(r) ==
    IF ~r.reached THEN [result |-> "error", value |-> NetworkMsg]
    ELSE IF ~r.parses THEN [result |-> "error", value |-> ParseMsg]
    ELSE IF ~r.ok
         THEN [result |-> "error",
               value |-> IF IsSome(r.message) /\ Get(r.message) # ""
                         THEN Get(r.message) ELSE AuthFailedMsg]
    ELSE [result |-> "ok", value |-> r.token]

\* authService.getAuthHeader()
getAuthHeader(tok) ==
    IF IsSome(tok) /\ Get(tok) # "" THEN Some(<<"Bearer", Get(tok)>>) ELSE None

\* authService.isAuthenticated(): !!localStorage.getItem('authToken')
isAuthenticated(tok) == IsSome(tok) /\ Get(tok) # ""

\* useAuth.login -> authService.login(email): POST /auth is sent.
LoginStart ==
    /\ logins < MaxLogins
    /\ logins' = logins + 1
    /\ view' = [view EXCEPT !.session = NoSession]
    /\ UNCHANGED <<token, tasks, store, faults>>

\* A variant: the answer to a login is dropped when logout() has run since
\* the login started
LoginResponseDroppedAfterLogout ==
    /\ logins > 0
    /\ logins' = logins - 1
    /\ \E r \in AuthResponses :
          /\ token' = IF view.session.loggedOut THEN token
                       ELSE loginOnResponse(token, loginParsed(r) /\ r.ok, r.token)
          /\ view' = [view EXCEPT !.session.resp = r,
                                  !.session.result = loginResult(r).result,
                                  !.session.value = loginResult(r).value]
    /\ UNCHANGED <<tasks, store, faults>>

\* POST /auth answers.
LoginResponse ==
    /\ logins > 0
    /\ logins' = logins - 1
    /\ \E r \in AuthResponses :
          /\ token' = loginOnResponse(token, loginParsed(r) /\ r.ok, r.token)
          /\ view' = [view EXCEPT !.session.resp = r,
                                  !.session.result = loginResult(r).result,
                                  !.session.value = loginResult(r).value]
    /\ UNCHANGED <<tasks, store, faults>>

\* useAuth.logout -> authService.logout()
Logout ==
    /\ token' = logout(token)
    /\ view' = [view EXCEPT !.session = [NoSession EXCEPT !.loggedOut = TRUE]]
    /\ UNCHANGED <<tasks, store, logins, faults>>

----------------------------------------------------------------------------
(* The Auth page: the email form in front of useAuth.login *)

\* What the user may type: nothing, blanks, an address, an address after a blank.
Emails == {<<>>, <<" ">>, <<"a">>, <<" ", "a">>}

EnterEmailMsg == "Please enter your email"
LoginOkToast == "Login successful!"

\* Auth.handleSubmit: if (!email) { toast(...); return; }
authRejects(email) == ~Truthy(email)

\* The user types into the email input (disabled while useAuth is loading).
SetEmail ==
    /\ logins = 0 /\ ~view.auth.left
    /\ \E e \in Emails : view' = [view EXCEPT !.auth.email = e]
    /\ UNCHANGED <<token, tasks, store, logins, faults>>

\* Auth.handleSubmit (the button is disabled while useAuth is loading): an
\* email that is rejected is answered with a notification; any other is
\* handed to useAuth.login, which posts it.
AuthSubmit ==
    /\ logins = 0 /\ ~view.auth.left
    /\ IF authRejects(view.auth.email)
       THEN /\ view' = [view EXCEPT !.auth.toast = EnterEmailMsg]
            /\ UNCHANGED logins
       ELSE /\ logins < MaxLogins
            /\ logins' = logins + 1
            /\ view' = [view EXCEPT !.session = NoSession,
                                    !.auth.sent = Some(view.auth.email)]
    /\ UNCHANGED <<token, tasks, store, faults>>

\* POST /auth answers the Auth page: authService.login stores the token or
\* throws, useAuth.login navigates to /products or rethrows, handleSubmit
\* shows the notification.
AuthResponse ==
    /\ logins > 0 /\ ~view.auth.left
    /\ logins' = logins - 1
    /\ \E r \in AuthResponses :
          /\ token' = loginOnResponse(token, loginParsed(r) /\ r.ok, r.token)
          /\ view' = [view EXCEPT !.session.resp = r,
                                  !.session.result = loginResult(r).result,
                                  !.session.value = loginResult(r).value,
                                  !.auth.left = (loginResult(r).result = "ok"),
                                  !.auth.toast = IF loginResult(r).result = "ok"
                                                 THEN LoginOkToast
                                                 ELSE loginResult(r).value]
    /\ UNCHANGED <<tasks, store, faults>>

AuthInit == Init

AuthNext ==
    \/ SetEmail
    \/ AuthSubmit
    \/ AuthResponse

SpecAuth == AuthInit /\ [][AuthNext]_vars

----------------------------------------------------------------------------
(* The ProductForm page: validation in front of createProduct / updateProduct *)

\* What the user may type as a name and as a price.
Names == {<<>>, <<" ">>, <<"S">>, <<" ", "S">>}
Prices == {<<>>, <<" ">>, <<"a">>, <<"0">>, <<"-", "5">>, <<"1", "2">>}

\* String.prototype.trim()
RECURSIVE TrimLeft(_)
TrimLeft(s) == IF Len(s) > 0 /\ s[1] = " " THEN TrimLeft(Tail(s)) ELSE s

RECURSIVE TrimRight(_)
TrimRight(s) ==
    IF Len(s) > 0 /\ s[Len(s)] = " " THEN TrimRight(SubSeq(s, 1, Len(s) - 1)) ELSE s

Trim(s) == TrimRight(TrimLeft(s))

AllDigits(s) == Len(s) > 0 /\ \A i \in 1..Len(s) : s[i] \in Digits

\* Number(s) for strings of blanks, a sign and decimal digits: blanks are
\* trimmed, the empty string is 0, anything that is not a signed integer is NaN.
NotANumber == [nan |-> TRUE, n |-> 0]
Num(n) == [nan |-> FALSE, n |-> n]

ToNumber(s) ==
    LET t == Trim(s)
    IN  IF t = <<>> THEN Num(0)
        ELSE IF t[1] \in {"-", "+"}
             THEN IF AllDigits(Tail(t))
                  THEN Num((IF t[1] = "-" THEN 0 - 1 ELSE 1) * LeadingDigits(Tail(t), 1, 0))
                  ELSE NotANumber
        ELSE IF AllDigits(t) THEN Num(LeadingDigits(t, 1, 0))
        ELSE NotANumber

\* A variant: validate() that accepts any price that is a number
validateAnyNumber(name, price) ==
    [name |-> IF ~Truthy(Trim(name)) THEN "Product name is required" ELSE "",
     price |-> IF ~Truthy(price) THEN "Price is required"
               ELSE IF ToNumber(price).nan THEN "Price must be a positive number"
               ELSE ""]

\* ProductForm.validate: the errors it sets.
validate(name, price) ==
    [name |-> IF ~Truthy(Trim(name)) THEN "Product name is required" ELSE "",
     price |-> IF ~Truthy(price) THEN "Price is required"
               ELSE IF ToNumber(price).nan \/ ToNumber(price).n <= 0
                    THEN "Price must be a positive number"
               ELSE ""]

SetName ==
    /\ ~view.form.left
    /\ \E n \in Names : view' = [view EXCEPT !.form.name = n]
    /\ UNCHANGED <<token, tasks, store, logins, faults>>

SetPrice ==
    /\ ~view.form.left
    /\ \E x \in Prices : view' = [view EXCEPT !.form.price = x]
    /\ UNCHANGED <<token, tasks, store, logins, faults>>

\* ProductForm.handleSubmit (the button is disabled while loading), up to
\* its await: validate() sets the errors and stops the submission when there
\* are any; otherwise updateProduct (edit mode) or createProduct is called
\* with the trimmed name and the price as a number.  A call that fails before
\* any await settles in the same step.
FormSubmit ==
    /\ ~view.form.loading /\ ~view.form.left
    /\ LET f == view.form
           errs == validate(f.name, f.price)
       IN  IF errs # NoErrors
           THEN Commit([World EXCEPT !.view.form.errors = errs])
           ELSE /\ FreeSlots(World) # {}
                /\ LET s == FirstFree(World)
                       c == IF f.id # "" THEN updateProduct(f.id, token)
                            ELSE createProduct(token)
                   IN  Commit(Settle(
                           [World EXCEPT
                               !.view.form.errors = errs,
                               !.view.form.loading = TRUE,
                               !.view.form.sent =
                                   Some([name |-> Trim(f.name), price |-> ToNumber(f.price)]),
                               !.tasks[s] = [IdleTask EXCEPT !.kind = "form", !.call = c]],
                           s))
    /\ UNCHANGED <<logins, faults>>

\* The backend answers the request of the form.
FormResponse(s) == Answer(s, Responses(tasks[s].call), FALSE)

\* The page is opened to create a product or to edit one.
FormInit ==
    /\ token \in Opt(Tokens)
    /\ tasks = [s \in Slots |-> IdleTask]
    /\ store = initialState
    /\ \E i \in {"", "p1"} : view = [initialView EXCEPT !.form.id = i]
    /\ logins = 0
    /\ faults = 0

FormNext ==
    \/ SetName
    \/ SetPrice
    \/ FormSubmit
    \/ \E s \in Slots : FormResponse(s)

SpecForm == FormInit /\ [][FormNext]_vars

----------------------------------------------------------------------------
(* The Catalog State Container on its own: the plain actions of the slice   *)
(* dispatched to a store in any state the Products page can bring it to.    *)

SearchTexts == {"", "shoe"}

StoreStates ==
    {[initialState EXCEPT !.products = p, !.totalCount = t, !.currentPage = n,
                          !.searchQuery = q]
        : p \in {<<>>, <<"p1">>}, t \in {0, 19}, n \in 1..3, q \in SearchTexts}

\* dispatch(setSearchQuery(x))
DispatchSetSearchQuery ==
    /\ \E x \in SearchTexts :
          /\ store' = setSearchQuery(store, x)
          /\ view' = [view EXCEPT !.action = [type |-> "setSearchQuery", text |-> x,
                                              page |-> 0, before |-> store]]
    /\ UNCHANGED <<token, tasks, logins, faults>>

\* dispatch(setCurrentPage(n))
DispatchSetCurrentPage ==
    /\ \E n \in 1..3 :
          /\ store' = setCurrentPage(store, n)
          /\ view' = [view EXCEPT !.action = [type |-> "setCurrentPage", text |-> "",
                                              page |-> n, before |-> store]]
    /\ UNCHANGED <<token, tasks, logins, faults>>

StoreInit ==
    /\ token \in Opt(Tokens)
    /\ tasks = [s \in Slots |-> IdleTask]
    /\ store \in StoreStates
    /\ view = initialView
    /\ logins = 0
    /\ faults = 0

StoreNext ==
    \/ DispatchSetSearchQuery
    \/ DispatchSetCurrentPage

SpecStore == StoreInit /\ [][StoreNext]_vars

----------------------------------------------------------------------------
(* The pagination of the Products page on its own: the page count computed  *)
(* at render from any total and page size the store can hold.               *)

PagingStates ==
    {[initialState EXCEPT !.totalCount = t, !.itemsPerPage = n]
        : t \in 0..MaxTotal, n \in 1..MaxPerPage}

\* Products renders: const totalPages = Math.max(1, Math.ceil(totalCount / itemsPerPage))
RenderPagination ==
    /\ view' = [view EXCEPT !.action = [type |-> "render", text |-> "",
                                        page |-> totalPages(store), before |-> store]]
    /\ UNCHANGED <<token, tasks, store, logins, faults>>

PagingInit ==
    /\ token \in Opt(Tokens)
    /\ tasks = [s \in Slots |-> IdleTask]
    /\ store \in PagingStates
    /\ view = initialView
    /\ logins = 0
    /\ faults = 0

PagingNext == RenderPagination

SpecPaging == PagingInit /\ [][PagingNext]_vars

----------------------------------------------------------------------------
(* The categories of the Catalog State Container on their own: any page      *)
(* (Products, ProductForm) dispatches fetchCategories, the backend answers.  *)

\* dispatch(fetchCategories())
RefreshCategories ==
    /\ FreeSlots(World) # {}
    /\ Commit(DispatchFetchCategories(World, FirstFree(World)))
    /\ UNCHANGED <<logins, faults>>

\* GET /categories answers.
CategoriesResponse(s) == Answer(s, CategoryResponses, FALSE)

CategoriesInit == Init

CategoriesNext ==
    \/ RefreshCategories
    \/ \E s \in Slots : CategoriesResponse(s)

SpecCategories == CategoriesInit /\ [][CategoriesNext]_vars

----------------------------------------------------------------------------
(* The Remote API Client called directly by a page (ProductForm,            *)
(* ProductDetails), one call at a time, while the session may change.       *)

\* A page calls an operation of productService with its default retryCount.
ClientCall ==
    /\ FreeSlots(World) = Slots
    /\ \E c \in {getProducts(o, ITEMS_PER_PAGE, cat, RcNum(0), token)
                    : o \in {0, ITEMS_PER_PAGE}, cat \in {"", "c1"}}
               \cup {searchProducts("shoe", token), createProduct(token), getCategories(token)}
               \cup {getProduct(i, token) : i \in Ids}
               \cup {updateProduct(i, token) : i \in Ids}
               \cup {deleteProductRequest(i, token) : i \in Ids} :
          tasks' = [tasks EXCEPT ![FirstFree(World)] =
                        [IdleTask EXCEPT !.kind = "client", !.call = c]]
    /\ UNCHANGED <<token, store, view, logins, faults>>

\* The page takes the settled result; the slot is free again.
ClientSettled ==
    /\ \E s \in Slots :
          /\ tasks[s].kind = "client"
          /\ tasks[s].call.pc = "done"
          /\ tasks' = [tasks EXCEPT ![s] = IdleTask]
    /\ UNCHANGED <<token, store, view, logins, faults>>

ServiceInit == Init

ServiceNext ==
    \/ ClientCall
    \/ \E s \in Slots : ClientResponse(s)
    \/ \E s \in Slots : TimerFires(s)
    \/ ClientSettled
    \/ LoginStart
    \/ LoginResponse
    \/ Logout

SpecService == ServiceInit /\ [][ServiceNext]_vars

----------------------------------------------------------------------------
(* Properties of the Remote API Client *)

Calls == {tasks[s].call : s \in Slots}

\* A getProducts call made with the default retryCount (attempts 0, 1, 2, 3).
ListCalls == {c \in Calls : c.op = "getProducts"}

\* The k-th backoff wait was caused by a 429 without Retry-After.
Plain429(c, k) == c.tries[k].kind = "429" /\ ~c.tries[k].header

AllPlain429(c) == \A k \in 1..Len(c.tries) : Plain429(c, k)

\* C1: in listProducts, 429 responses without Retry-After on attempts 0, 1 and
\* 2 are followed by waits of 1000, 2000 and 4000 ms in that order, and a 4th
\* consecutive 429 ends the call with the rate-limit error: 4 requests and 3
\* waits in all, nothing after.
C1_RateLimitSchedule ==
    \A c \in ListCalls :
        AllPlain429(c) =>
            /\ Len(c.tries) <= 3
            /\ Len(c.tries) >= 1 => c.tries[1].delay = 1000
            /\ Len(c.tries) >= 2 => c.tries[2].delay = 2000
            /\ Len(c.tries) >= 3 => c.tries[3].delay = 4000
            /\ c.requests <= 4
            /\ (c.requests = 4 /\ c.pc # "http" /\ c.resp.status = 429)
                  => /\ c.pc = "done"
                     /\ c.out = Failure(RateLimitMsg)
                     /\ Len(c.tries) = 3

C1_Witness ==
    \E c \in ListCalls :
        /\ Len(c.tries) = 3 /\ AllPlain429(c)
        /\ c.requests = 4 /\ c.pc = "done" /\ c.resp.status = 429

\* The fetch of slot s settles in this step with the given status.
Received(s, status) ==
    /\ tasks[s].call.pc = "http"
    /\ tasks'[s].call # tasks[s].call
    /\ tasks'[s].call.resp.reached
    /\ tasks'[s].call.resp.status = status

\* C5: when listProducts receives a 401 on any attempt, the stored token is
\* cleared and the call ends at once with the session-expired error: no wait
\* is started and no further request is sent for it.
C5_SessionExpiredNoRetry ==
    [][\A s \in Slots :
          /\ (tasks[s].call.op = "getProducts" /\ Received(s, 401))
                => /\ token' = None
                   /\ tasks'[s].call.pc = "done"
                   /\ tasks'[s].call.out = Failure(SessionExpiredMsg)
                   /\ tasks'[s].call.requests = tasks[s].call.requests
                   /\ tasks'[s].call.tries = tasks[s].call.tries
          /\ (tasks[s].call.op = "getProducts" /\ tasks[s].call.pc = "done"
                /\ tasks[s].call.out = Failure(SessionExpiredMsg))
                => tasks'[s].call \in {tasks[s].call, Idle}]_vars

C5_Witness ==
    \E c \in ListCalls :
        /\ c.pc = "done" /\ c.out = Failure(SessionExpiredMsg)
        /\ c.retryCount = RcNum(1) /\ c.requests = 2
        /\ token = None

\* C6: while no token is stored a Remote API Client operation sends no HTTP
\* request, and an operation that found no token at any of its attempts fails
\* with the authentication error having sent none.
C6_NoTokenNoRequest ==
    \A c \in Calls :
        (c.pc # "idle" /\ ~c.sawToken) =>
            /\ c.requests = 0
            /\ c.pc # "http"
            /\ c.pc = "done" => c.out = Failure(NoTokenMsg)

C6_Witness ==
    \E c \in Calls :
        /\ c.op = "getProducts" /\ c.pc = "done" /\ ~c.sawToken
        /\ c.out = Failure(NoTokenMsg) /\ c.requests = 0

\* C7: when getProduct(id) succeeds through its fallback list query, the
\* product it returns is the one whose identifier is id.
C7_FallbackReturnsRequested ==
    \A c \in Calls :
        (c.op = "getProduct" /\ c.stage = "list" /\ c.pc = "done" /\ c.out.state = "ok")
            => c.out.product = c.id

\* C8: listProducts normalises a successful response to {items, total}: a bare
\* array gives the array, with total from x-total-count when present, else the
\* array length; an object gives the items under `products`, else under `data`,
\* and the total under `total`, else under `totalCount`.
C8_Normalized ==
    \A c \in ListCalls :
        (c.pc = "done" /\ c.out.state = "ok") =>
            LET r == c.resp
                o == c.out
            IN  /\ (r.shape = "array") => o.products = r.items
                /\ (r.shape = "array" /\ r.totalHeader = <<>>) => o.total = Len(r.items)
                /\ (r.shape = "array" /\ r.totalHeader = <<"0">>) => o.total = 0
                /\ (r.shape = "array" /\ r.totalHeader = <<"1", "2">>) => o.total = 12
                /\ (r.shape = "object" /\ r.products # None) => o.products = r.products[1]
                /\ (r.shape = "object" /\ r.products = None /\ r.data # None)
                      => o.products = r.data[1]
                /\ (r.shape = "object" /\ r.total = <<10>>) => o.total = 10
                /\ (r.shape = "object" /\ r.total \in {None, <<0>>} /\ r.totalCount = <<19>>)
                      => o.total = 19

C8_Witness ==
    \E c \in ListCalls :
        /\ c.pc = "done" /\ c.out.state = "ok"
        /\ c.resp.shape = "object" /\ c.resp.products = None /\ c.resp.data = <<(<<"p2">>)>>
        /\ c.resp.total = None /\ c.resp.totalCount = <<19>>
        /\ c.out.products = <<"p2">> /\ c.out.total = 19

\* Failures of listProducts other than a 429 and an expired session.
OtherErrors == {NoTokenMsg, NetworkMsg, ParseMsg, StatusMsg(404), StatusMsg(500)}

\* C10: a listProducts failure that is neither a 429 nor an expired session is
\* followed by a wait of 1000, 2000, 4000 ms (attempt 0, 1, 2) and a retry;
\* such an error reaches the caller only after the 3rd retry has failed too.
C10_OtherFailuresRetried ==
    \A c \in ListCalls :
        /\ \A k \in 1..Len(c.tries) :
              c.tries[k].kind = "error"
                  => c.tries[k].delay = Min(1000 * Pow2(k - 1), 30000)
        /\ Len(c.tries) <= 3
        /\ (c.pc = "sleep" /\ c.cause \in OtherErrors)
              => c.delay = c.tries[Len(c.tries)].delay
        /\ (c.pc = "done" /\ c.out.state = "error" /\ c.out.error \in OtherErrors)
              => /\ Len(c.tries) = 3
                 /\ c.retryCount = RcNum(3)

C10_Witness ==
    \E c \in ListCalls :
        /\ c.pc = "done" /\ c.out = Failure(StatusMsg(500)) /\ c.requests = 4
        /\ Len(c.tries) = 3
        /\ \A k \in 1..3 : c.tries[k].kind = "error"
        /\ c.tries[1].delay = 1000 /\ c.tries[2].delay = 2000 /\ c.tries[3].delay = 4000

----------------------------------------------------------------------------
(* Properties of the Catalog State Container and the Products page *)

Listed(list, id) == \E i \in 1..Len(list) : list[i] = id

\* The deleteProduct thunk of slot s is fulfilled in this step (handleDelete
\* then starts its refresh in the same step).
DeleteFulfilled(s) ==
    /\ tasks[s].kind = "deleteProduct"
    /\ tasks'[s] # tasks[s]
    /\ view'.event.type # "deleteProduct/rejected"

\* The list lost exactly the item id: the others stay, in their order.
LostExactly(before, after, id) ==
    /\ Len(after) = Len(before) - 1
    /\ ~Listed(after, id)
    /\ \E k \in 1..Len(before) :
          /\ before[k] = id
          /\ \A i \in 1..Len(after) : after[i] = before[IF i < k THEN i ELSE i + 1]

\* C2 (as amended): when removeProduct(id) succeeds, a list that holds id
\* loses exactly that item and a list that does not is unchanged; in both
\* cases total decreases by 1, but never below 0.
C2_RemoveDecrementsAlways ==
    [][\A s \in Slots :
          DeleteFulfilled(s) =>
              /\ Listed(store.products, tasks[s].id)
                    => LostExactly(store.products, store'.products, tasks[s].id)
              /\ ~Listed(store.products, tasks[s].id) => store'.products = store.products
              /\ store.totalCount > 0 => store'.totalCount = store.totalCount - 1
              /\ store.totalCount = 0 => store'.totalCount = 0]_vars

\* C2 (as stated): ... and when the list does not hold id, both the list and
\* total are unchanged.
C2_AbsentLeavesTotal ==
    [][\A s \in Slots :
          DeleteFulfilled(s) =>
              /\ Listed(store.products, tasks[s].id)
                    => /\ LostExactly(store.products, store'.products, tasks[s].id)
                       /\ store.totalCount > 0 => store'.totalCount = store.totalCount - 1
                       /\ store.totalCount = 0 => store'.totalCount = 0
              /\ ~Listed(store.products, tasks[s].id)
                    => /\ store'.products = store.products
                       /\ store'.totalCount = store.totalCount]_vars

\* A removal of a product the list no longer held has been counted: the
\* refresh that follows it is still in flight.
C2_Witness ==
    \E s \in Slots :
        /\ tasks[s].kind = "fetchProducts" /\ tasks[s].afterDelete
        /\ tasks[s].call.pc = "http" /\ tasks[s].call.requests = 1
        /\ ~tasks[s].listed
        /\ store.totalCount = 9
        /\ Len(store.products) > 0

\* The fetchProducts thunk of slot s settles in this step.
FetchSettles(s) ==
    /\ tasks[s].kind = "fetchProducts"
    /\ tasks'[s].kind = "idle"

\* C3: nothing discards the result of a refreshProducts that a later one has
\* superseded: when it resolves, whatever the order, its items and total
\* replace the stored ones.
C3_StaleResponseApplied ==
    [][\A s \in Slots :
          (FetchSettles(s) /\ ~tasks[s].latest
              /\ view'.event.type = "fetchProducts/fulfilled")
                => /\ store'.products = view'.event.products
                   /\ store'.totalCount = view'.event.total
                   /\ view'.event.stale =
                         (<<tasks[s].query, tasks[s].page>> #
                             <<store.searchQuery, store.currentPage>>)]_vars

\* Two refreshes were in flight together, the earlier one resolved last, and
\* the stored items are those it fetched for another search text or page;
\* no refresh is left to replace them.
C3_Witness ==
    /\ view.event.type = "fetchProducts/fulfilled" /\ view.event.stale
    /\ store.products = view.event.products /\ Len(store.products) > 0
    /\ store.error = None /\ ~store.loading
    /\ \A s \in Slots : tasks[s].kind = "idle"

\* A fetchProducts thunk is dispatched into slot s in this step and awaits
\* its service call.
FetchStarts(s) ==
    /\ tasks[s].kind # "fetchProducts"
    /\ tasks'[s].kind = "fetchProducts"

\* C4: refreshProducts sets loading when it starts; when it succeeds it
\* clears loading and replaces items and total by the fetched values; when it
\* fails it clears loading, records an error message and leaves items and
\* total as they were.
C4_RefreshTransitions ==
    [][\A s \in Slots :
          /\ FetchStarts(s) => store'.loading /\ store'.error = None
          /\ (FetchSettles(s) /\ view'.event.type = "fetchProducts/fulfilled")
                => /\ ~store'.loading
                   /\ store'.products = view'.event.products
                   /\ store'.totalCount = view'.event.total
          /\ (FetchSettles(s) /\ view'.event.type = "fetchProducts/rejected")
                => /\ ~store'.loading
                   /\ store'.error = Some(view'.event.error)
                   /\ view'.event.error # ""
                   /\ store'.products = store.products
                   /\ store'.totalCount = store.totalCount]_vars

\* A refresh failed after an earlier one had listed products: the message is
\* stored and the list is kept.
C4_Witness ==
    /\ view.event.type = "fetchProducts/rejected"
    /\ store.error = Some(SearchFailedMsg) /\ ~store.loading
    /\ store.searchQuery = "shoe"
    /\ Len(store.products) = 1 /\ store.totalCount = 19

\* C9: using the operations of the Products page only, the current page
\* stays within [1, totalPages], totalPages = max(1, ceil(total/itemsPerPage)).
C9_PageWithinRange ==
    /\ store.currentPage >= 1
    /\ store.currentPage <= totalPages(store)

----------------------------------------------------------------------------
(* Further properties of the Remote API Client *)

\* c waits for the retry of an attempt that was answered 429.
WaitsAfter429(c) ==
    /\ c.pc = "sleep"
    /\ c.tries[Len(c.tries)].kind = "429"

\* C11: on a 429 answer to listProducts with retries remaining, the wait
\* before the retry is the Retry-After value in seconds times 1000 ms when
\* the header is present (60 gives 60000 ms, beyond the 30000 ms cap of the
\* computed delay), and min(1000 ms x 2^attempt, 30000 ms) when it is absent.
C11_RetryAfterOrBackoff ==
    \A c \in ListCalls :
        WaitsAfter429(c) =>
            /\ c.retryCount.n < 3
            /\ c.resp.status = 429
            /\ c.resp.retryAfter = <<"6", "0">> => c.delay = 60 * 1000
            /\ c.resp.retryAfter = <<>> =>
                  /\ c.retryCount.n = 0 => c.delay = 1000
                  /\ c.retryCount.n = 1 => c.delay = 2000
                  /\ c.retryCount.n = 2 => c.delay = 4000
                  /\ c.delay <= 30000
            /\ c.tries[Len(c.tries)].delay = c.delay

C11_Witness ==
    \E c \in ListCalls :
        /\ WaitsAfter429(c) /\ c.retryCount = RcNum(2)
        /\ c.resp.retryAfter = <<"6", "0">> /\ c.delay = 60000
        /\ c.tries[1].kind = "429" /\ ~c.tries[1].header /\ c.tries[1].delay = 1000

----------------------------------------------------------------------------
(* Properties of the plain actions of the Catalog State Container *)

\* C12: setSearchText(x) sets the search text to x and the current page to 1,
\* for every x and every prior page, also when x is the text already stored;
\* nothing else changes.
C12_SearchResetsPage ==
    view.action.type = "setSearchQuery" =>
        /\ store.searchQuery = view.action.text
        /\ store.currentPage = 1
        /\ store = [view.action.before EXCEPT !.searchQuery = view.action.text,
                                               !.currentPage = 1]

\* The text already stored was set again on page 3.
C12_Witness ==
    /\ view.action.type = "setSearchQuery"
    /\ view.action.text = "shoe" /\ view.action.before.searchQuery = "shoe"
    /\ view.action.before.currentPage = 3
    /\ store.searchQuery = "shoe" /\ store.currentPage = 1

----------------------------------------------------------------------------
(* Further properties of the Catalog State Container and the Products page *)

\* The query of call c is the one a refresh makes from state st.
QueryOf(c, st) ==
    IF st.searchQuery # ""
    THEN c.op = "searchProducts" /\ c.text = st.searchQuery
    ELSE /\ c.op = "getProducts"
         /\ c.offset = (st.currentPage - 1) * st.itemsPerPage
         /\ c.limit = st.itemsPerPage

SameQuery(c, d) ==
    /\ c.op = d.op /\ c.text = d.text
    /\ c.offset = d.offset /\ c.limit = d.limit /\ c.categoryId = d.categoryId

\* C13: each refreshProducts makes one of the two queries, chosen from the
\* state read when it starts and kept until it settles: searchProducts with
\* the search text when that is non-empty, the total recorded being the
\* number of results; else listProducts with offset = (currentPage - 1) x
\* itemsPerPage and limit = itemsPerPage.
C13_QueryFromStateAtStart ==
    [][\A s \in Slots :
          /\ FetchStarts(s) => QueryOf(tasks'[s].call, store')
          /\ (tasks[s].kind = "fetchProducts" /\ tasks'[s].kind = "fetchProducts")
                => SameQuery(tasks[s].call, tasks'[s].call)
          /\ (tasks[s].kind = "fetchProducts" /\ tasks[s].call.op = "searchProducts")
                => tasks[s].call.requests = 1
          /\ (FetchSettles(s) /\ tasks[s].call.op = "searchProducts"
                /\ view'.event.type = "fetchProducts/fulfilled")
                => /\ store'.totalCount = Len(store'.products)
                   /\ view'.event.total = Len(view'.event.products)]_vars

\* A search is in flight for page 1 while a list query made for page 2 (offset
\* 9) still waits for its answer.
C13_Witness ==
    \E s, t \in Slots :
        /\ tasks[s].kind = "fetchProducts" /\ tasks[s].call.op = "searchProducts"
        /\ tasks[s].call.text = "shoe" /\ tasks[s].call.pc = "http"
        /\ tasks[t].kind = "fetchProducts" /\ tasks[t].call.op = "getProducts"
        /\ tasks[t].call.offset = 9 /\ tasks[t].call.limit = 9
        /\ store.searchQuery = "shoe" /\ store.currentPage = 1

\* The deleteProduct thunk is rejected in this step: its service call failed,
\* at once for want of a token or on the server's answer.
DeleteFails ==
    /\ view'.event.type = "deleteProduct/rejected"
    /\ \/ view'.event # view.event
       \/ \E s \in Slots : tasks[s].kind = "deleteProduct" /\ tasks'[s].kind # "deleteProduct"

\* C14: when removeProduct(id) fails, every field of the catalog state is
\* left as it was, and the failure reaches the caller: handleDelete ends the
\* deletion without starting the refresh that follows a success.
C14_FailedRemoveLeavesState ==
    [][DeleteFails =>
          /\ store' = store
          /\ ~view'.isDeleting
          /\ \A s \in Slots : ~FetchStarts(s)
          /\ \A s \in Slots : tasks[s].kind = "deleteProduct" => tasks'[s].kind = "idle"]_vars

\* The server refused the removal of a listed product: the product is still
\* listed, the total and the error are as before.
C14_Witness ==
    /\ view.event.type = "deleteProduct/rejected"
    /\ token # None
    /\ Listed(store.products, view.event.id)
    /\ store.totalCount = 19 /\ store.error = None
    /\ ~store.loading /\ ~view.isDeleting

----------------------------------------------------------------------------
(* Further properties of the Remote API Client and the Session Store *)

\* C15: whenever an operation of the Remote API Client, whichever it is,
\* receives a 401, the stored token is cleared and isAuthenticated() is false
\* afterwards.
C15_Any401ClearsToken ==
    [][\A s \in Slots :
          Received(s, 401) => token' = None /\ ~isAuthenticated(token')]_vars

\* Call c has received a non-success status as the answer to its one request.
Refused(c) ==
    /\ c.pc = "done" /\ c.requests = 1
    /\ c.resp.reached /\ ~Ok(c.resp)

\* The error body of r is a JSON object with a message.
CarriesMessage(r) == r.shape = "object" /\ IsSome(r.message)

\* C16: when createProduct receives a non-success status, it fails with the
\* message of the server's response body, and with a generic message only
\* when the body cannot be parsed.
C16_CreateSurfacesServerMessage ==
    \A c \in Calls :
        (c.op = "createProduct" /\ Refused(c)) =>
            /\ c.out.state = "error"
            /\ CarriesMessage(c.resp) => c.out.error = Get(c.resp.message)
            /\ c.out.error = CreateFailedMsg => c.resp.shape # "object"

\* C17: when updateProduct receives a non-success status, it fails with the
\* message of the server's response body, and with a generic message when the
\* body cannot be parsed or carries no message; on success it returns the
\* server's resulting record.
C17_UpdateSurfacesServerMessage ==
    \A c \in Calls :
        /\ (c.op = "updateProduct" /\ Refused(c)) =>
              /\ c.out.state = "error"
              /\ CarriesMessage(c.resp) => c.out.error = Get(c.resp.message)
              /\ ~CarriesMessage(c.resp) => c.out.error = UpdateFailedMsg
        /\ (c.op = "updateProduct" /\ c.pc = "done" /\ c.requests = 1
              /\ Ok(c.resp) /\ c.resp.shape = "object") =>
              /\ c.out.state = "ok"
              /\ c.out.product = c.resp.id

C17_Witness ==
    \E c \in Calls :
        /\ c.op = "updateProduct" /\ Refused(c)
        /\ c.resp.status = 500 /\ c.resp.message = Some("Name already exists")
        /\ c.out = Failure("Name already exists")

\* A step in which the answer to POST /auth arrives at authService.login.
LoginAnswered == logins' = logins - 1

\* C18: login(email), answered with success and a readable body, stores exactly
\* the token the server returned and returns it; answered with a non-success
\* status it throws the message the server reported (when it reported one) and
\* every login that throws leaves the stored token, present or absent, as it was.
C18_LoginStoresOrFails ==
    [][LoginAnswered =>
          LET r == view'.session.resp
              s == view'.session
          IN /\ (r.reached /\ r.parses /\ r.ok)
                    => s.result = "ok" /\ s.value = r.token /\ token' = Some(r.token)
             /\ (r.reached /\ r.parses /\ ~r.ok /\ IsSome(r.message))
                    => s.result = "error" /\ s.value = Get(r.message)
             /\ (r.reached /\ ~r.ok) => s.result = "error" /\ token' = token
             /\ s.result = "error" => token' = token]_vars

\* C18 witness: a login answered with a non-success status carrying
\* "Invalid email" has thrown that message while a token was stored, and the
\* token is still stored.
C18_Witness ==
    /\ view.session.resp.reached /\ ~view.session.resp.ok
    /\ view.session.resp.message = Some("Invalid email")
    /\ view.session.result = "error" /\ view.session.value = "Invalid email"
    /\ ~view.session.loggedOut
    /\ token = Some("tok")
    /\ logins = 0

\* A step in which authService.logout() runs.
LogoutRuns ==
    /\ view'.session = [NoSession EXCEPT !.loggedOut = TRUE]
    /\ UNCHANGED <<tasks, store, logins, faults>>

\* C19: in every reachable state isAuthenticated() is true exactly when a
\* token is present in storage; right after logout() no token is present,
\* isAuthenticated() is false and getAuthHeader() is null.
C19_AuthenticatedIffToken ==
    /\ [](isAuthenticated(token) <=> IsSome(token))
    /\ [][LogoutRuns => /\ token' = None
                        /\ ~isAuthenticated(token')
                        /\ getAuthHeader(token') = None]_vars

\* C19 witness: logout() has run, no login was started or answered since, and
\* no token is present.
C19_Witness ==
    /\ view.session.loggedOut /\ view.session.result = ""
    /\ logins = 0
    /\ token = None
    /\ ~isAuthenticated(token)

\* C20: logout() does not cancel a login in flight, and a login answered with
\* success after logout() has run writes its token over the cleared storage
\* (the last write wins).
C20_LastWriteWins ==
    [][/\ LogoutRuns => logins' = logins
       /\ (LoginAnswered /\ view.session.loggedOut /\ view'.session.result = "ok")
              => /\ token' = Some(view'.session.value)
                 /\ view'.session.loggedOut]_vars

\* C20 witness: logout() has completed, no login was started afterwards, none
\* is in flight, and a token is stored.
C20_Witness ==
    /\ view.session.loggedOut
    /\ view.session.result = "ok"
    /\ logins = 0
    /\ token = Some(view.session.value)
    /\ isAuthenticated(token)

\* C25: when no token is stored, listProducts fails with the authentication
\* error on its first attempt, without entering the retry path and without
\* waiting a backoff delay.
C25_NoTokenFailsFast ==
    \A c \in ListCalls :
        (c.pc # "idle" /\ ~c.sawToken) => /\ Len(c.tries) = 0
                                          /\ c.pc = "done"
                                          /\ c.out = Failure(NoTokenMsg)

\* C27: a listProducts call started with retryCount 0 sends at most 4 requests
\* and waits at most 3 times whatever the server answers: every wait, after a
\* 429 or after another failure, uses up one of the same 3 retries, and a
\* call that has settled sends nothing more.
C27_SharedRetryBudget ==
    \A c \in ListCalls :
        /\ c.retryCount.isNum
        /\ c.retryCount.n <= MAX_RETRIES
        /\ c.retryCount.n = Len(c.tries) - (IF c.pc = "sleep" THEN 1 ELSE 0)
        /\ Len(c.tries) <= MAX_RETRIES
        /\ c.requests <= c.retryCount.n + 1
        /\ c.requests <= MAX_RETRIES + 1

\* C27 witness: a call that waited after a 429, after another failure and
\* after a 429 again, sent 4 requests and ended with the error of the 4th.
C27_Witness ==
    \E c \in ListCalls :
        /\ Len(c.tries) = 3
        /\ c.tries[1].kind = "429" /\ c.tries[2].kind = "error" /\ c.tries[3].kind = "429"
        /\ c.requests = 4
        /\ c.pc = "done" /\ c.out = Failure(StatusMsg(500))

\* C28: every wait before a retry in listProducts is at most 30000 ms, also
\* when the delay is taken from a Retry-After header.
C28_WaitsCapped ==
    \A c \in ListCalls :
        \A k \in 1..Len(c.tries) : c.tries[k].delay <= DELAY_CAP

\* A refreshProducts request is in flight: a fetchProducts thunk has been
\* dispatched and has not settled.
FetchInFlight == \E s \in Slots : tasks[s].kind = "fetchProducts"

\* C26: the loading flag is true whenever a fetchProducts request is in
\* flight; the completion of another operation does not clear it early.
C26_LoadingWhileFetching == FetchInFlight => store.loading

\* C24: for every items-per-page p > 0 and total t >= 0 the page count the
\* list view computes is max(1, ceil(t / p)): 1 when t = 0, otherwise the
\* least n with n * p >= t, and never less than 1.
C24_PageCount ==
    view.action.type = "render" =>
        LET t == view.action.before.totalCount
            p == view.action.before.itemsPerPage
            n == view.action.page
        IN  /\ n >= 1
            /\ t = 0 => n = 1
            /\ t > 0 => (n - 1) * p < t /\ t <= n * p

\* C24 witness: rendered with 19 products at 6 a page, the view counts 4 pages.
C24_Witness ==
    /\ view.action.type = "render"
    /\ view.action.before.totalCount = 19 /\ view.action.before.itemsPerPage = 6
    /\ view.action.page = 4

\* C23: refreshCategories, when it succeeds, replaces the category list and
\* its total by what listCategories returned (the total being x-total-count
\* when the header is present, else the number of categories returned); when
\* it fails, it records an error message and leaves list and total as they
\* were.
C23_RefreshCategories ==
    [][/\ view'.event.type = "fetchCategories/fulfilled"
            => /\ store'.categories =
                     Some([categories |-> view'.event.products,
                           total |-> view'.event.total])
               /\ view'.event.header = <<>>
                     => view'.event.total = Len(view'.event.products)
               /\ view'.event.header = <<"0">> => view'.event.total = 0
               /\ view'.event.header = <<"1", "2">> => view'.event.total = 12
       /\ view'.event.type = "fetchCategories/rejected"
            => /\ store'.categories = store.categories
               /\ IsSome(store'.error) /\ Get(store'.error) # ""]_vars

\* C23 witness: a refresh answered with two categories under x-total-count 12
\* stored them with total 12, and a later refresh that failed left them there
\* and recorded its error.
C23_Witness ==
    /\ view.event.type = "fetchCategories/rejected"
    /\ store.categories = Some([categories |-> <<"c1", "c2">>, total |-> 12])
    /\ IsSome(store.error)
    /\ token # None

\* C29: a product card shows 'Product deleted successfully!' only when the
\* delete it requested succeeded; when the delete fails, no success
\* notification is shown for it.
C29_NoSuccessToastOnFailure ==
    view.event.type = "deleteProduct/rejected" => view.event.toast # DeletedToast

DeleteTasks == {s \in Slots : tasks[s].kind = "deleteProduct"}

RefreshAfterDelete ==
    {s \in Slots : tasks[s].kind = "fetchProducts" /\ tasks[s].afterDelete}

\* A deleteProduct thunk is dispatched in this step (its request is sent, or
\* it fails at once for want of a token).
DeleteStarts ==
    \/ \E s \in Slots : tasks[s].kind # "deleteProduct" /\ tasks'[s].kind = "deleteProduct"
    \/ /\ view'.event.type = "deleteProduct/rejected" /\ view'.event # view.event
       /\ DeleteTasks = {}

\* C30: from the list view at most one delete request is in flight; from the
\* start of a delete until its follow-up refresh has completed, isDeleting is
\* set, a further delete request is ignored and sends nothing; and a
\* successful delete is followed by a product refresh that completes before
\* the next delete can start.
C30_OneDeleteAtATime ==
    /\ [](/\ Cardinality(DeleteTasks) + Cardinality(RefreshAfterDelete) <= 1
          /\ (DeleteTasks # {} \/ RefreshAfterDelete # {}) => view.isDeleting)
    /\ [][/\ DeleteStarts => ~view.isDeleting
          /\ (view'.event.type = "handleDelete/ignored" /\ view'.event # view.event)
                => /\ view.isDeleting
                   /\ tasks' = tasks /\ store' = store /\ token' = token
          /\ \A s \in Slots :
                DeleteFulfilled(s)
                    => \/ /\ tasks'[s].kind = "fetchProducts" /\ tasks'[s].afterDelete
                          /\ view'.isDeleting
                       \/ /\ tasks'[s].kind = "idle"
                          /\ view'.event.type = "fetchProducts/rejected"
                          /\ ~view'.isDeleting]_vars

\* C30 witness: a delete request made while an earlier delete was waiting for
\* its answer has been ignored: one delete is in flight, for another product.
C30_Witness ==
    /\ view.event.type = "handleDelete/ignored"
    /\ view.isDeleting
    /\ \E s \in DeleteTasks :
          /\ tasks[s].call.pc = "http" /\ tasks[s].call.requests = 1
          /\ tasks[s].id # view.event.id
    /\ RefreshAfterDelete = {}

Blank(s) == \A i \in 1..Len(s) : s[i] = " "

\* C21: submitting the login form with an email that is empty or consists only
\* of whitespace makes no request to the auth endpoint.
C21_BlankEmailNotPosted ==
    IsSome(view.auth.sent) => ~Blank(Get(view.auth.sent))

\* The prices, among those typed, that are numbers greater than 0.
PositivePrices == {<<"1", "2">>}

\* The form as it stands may be submitted: a name that is not blank and a
\* price that is a number greater than 0.
Submittable(f) == ~Blank(f.name) /\ f.price \in PositivePrices

\* A createProduct / updateProduct call is made in this step.
FormCalls == view'.form.sent # view.form.sent \/ (~view.form.loading /\ view'.form.loading)

\* handleSubmit ran in this step and validation stopped it.
FormStopped == view'.form.errors # NoErrors /\ view'.form.errors # view.form.errors

\* C22: the product form calls createProduct or updateProduct only when the
\* name is not empty after trimming and the price is present, a number and
\* greater than 0; otherwise the submission stops with validation errors and
\* no request is made.
C22_InvalidFormSendsNothing ==
    /\ [](\A s \in Slots :
            tasks[s].kind = "form"
                => /\ IsSome(view.form.sent)
                   /\ Truthy(Get(view.form.sent).name)
                   /\ ~Get(view.form.sent).price.nan
                   /\ Get(view.form.sent).price.n > 0)
    /\ [][/\ FormCalls => Submittable(view.form)
          /\ (\E s \in Slots : tasks[s].kind # "form" /\ tasks'[s].kind = "form")
                => Submittable(view.form)
          /\ FormStopped
                => /\ ~Submittable(view.form)
                   /\ tasks' = tasks /\ view'.form.sent = view.form.sent
                   /\ ~view'.form.loading]_vars

\* C22 witness: a form with a name and the price "0" was submitted: the price
\* error is shown, nothing was sent.
C22_Witness ==
    /\ view.form.name = <<"S">> /\ view.form.price = <<"0">>
    /\ view.form.errors = [name |-> "", price |-> "Price must be a positive number"]
    /\ view.form.sent = None
    /\ \A s \in Slots : tasks[s].kind = "idle"
    /\ token # None

====
